---------------------------- MODULE Spec2Model ----------------------------
(***************************************************************************)
(* A model of aphrodite/modeling/models/deepseek.py: the checkpoint        *)
(* weight-loading protocol (DeepseekForCausalLM.load_weights), the         *)
(* construction of the attention block and of the decoder layers, and the  *)
(* forward pass of the model stack with its cross-worker reductions.       *)
(*                                                                         *)
(* Parameter names are sequences of one-character strings, so that the     *)
(* substring tests (`in`), `str.replace` and `str.endswith` of the source  *)
(* are computed, not assumed.  An Optional value is a set with at most one *)
(* element: {} is None.                                                    *)
(***************************************************************************)
EXTENDS Integers, Sequences, FiniteSets, TLC

VARIABLES
    config,         \* the PretrainedConfig fields the code reads
    merge_weight,   \* linear_method is None or quant_config.merge_weight()
    tp_size,        \* get_tensor_model_parallel_world_size()
    \* ---- load_weights ----
    ckpt,           \* what hf_model_weights_iterator yields: a sequence of names
    it,             \* index of the next entry the iterator yields
    params,         \* params_dict: name -> (slice -> Optional tensor)
    calls,          \* the weight_loader invocations made so far, in order
    log,            \* per consumed entry: what load_weights did with it
    status,         \* "loading", "done" or "KeyError"
    \* ---- construction and forward ----
    phase,          \* "new", "ready", "error", "running", "returned", or "attn"/"load"
    layers,         \* DeepseekModel.layers: one record per decoder layer
    attn,           \* Optional result of DeepseekAttention.__init__
    i,              \* DeepseekModel.forward's loop index
    hidden_states,  \* DeepseekModel.forward's hidden_states
    residual,       \* DeepseekModel.forward's residual (Optional)
    trace,          \* operations executed by the forward call, in order
    layer_calls,    \* the arguments each decoder layer was called with
    \* ---- DeepseekMoE: expert weights and routing ----
    heap,           \* tensor storages: storage id -> sequence of elements
    expert_w,       \* per projection kind, each expert's weight: a view of a storage
    bank,           \* per projection kind, Optional packed bank (self.w1, self.w2)
    last_write,     \* Optional most recent in-place write to an expert weight
    router_logits,  \* per token, the gate's logit for every routed expert
    routing         \* Optional routing decision handed to fused_moe

vars == <<config, merge_weight, tp_size, ckpt, it, params, calls, log, status,
          phase, layers, attn, i, hidden_states, residual, trace, layer_calls,
          heap, expert_w, bank, last_write, router_logits, routing>>

loadVars == <<ckpt, it, params, calls, log, status>>
fwdVars == <<layers, i, hidden_states, residual, trace, layer_calls>>
moeVars == <<heap, expert_w, bank, last_write, router_logits, routing>>

(***************************************************************************)
(* Bounds of the model.                                                    *)
(***************************************************************************)
MaxLen == 2       \* length of the arbitrary checkpoints
MaxLayers == 2    \* config.num_hidden_layers
MaxExperts == 2   \* config.n_routed_experts
MaxHeads == 6     \* num_attention_heads, num_key_value_heads
MaxTP == 4        \* tensor-parallel world size
MaxTokens == 2    \* tokens of one MoE forward call

IsNone(o) == o = {}
Val(o) == CHOOSE x \in o : TRUE

\* no MoE block under study
IdleMoE ==
    /\ heap = << >>
    /\ expert_w = << >>
    /\ bank = << >>
    /\ last_write = {}
    /\ router_logits = << >>
    /\ routing = {}

(***************************************************************************)
(* Strings.                                                                *)
(***************************************************************************)
ROTARY_INV_FREQ == <<"r","o","t","a","r","y","_","e","m","b",".","i","n","v","_","f","r","e","q">>
BIAS_SUFFIX == <<".","b","i","a","s">>
WEIGHT_SUFFIX == <<".","w","e","i","g","h","t">>
MLP_EXPERTS == <<"m","l","p",".","e","x","p","e","r","t","s",".">>
MLP_SHARED_EXPERTS == <<"m","l","p",".","s","h","a","r","e","d","_","e","x","p","e","r","t","s",".">>
MODEL_LAYERS == <<"m","o","d","e","l",".","l","a","y","e","r","s",".">>
SELF_ATTN == <<".","s","e","l","f","_","a","t","t","n",".">>
DOT == <<".">>
MLP_DOT == <<"m","l","p",".">>
NORM == <<"n","o","r","m">>
QKV_PROJ == <<"q","k","v","_","p","r","o","j">>
Q_PROJ == <<"q","_","p","r","o","j">>
K_PROJ == <<"k","_","p","r","o","j">>
V_PROJ == <<"v","_","p","r","o","j">>
O_PROJ == <<"o","_","p","r","o","j">>
GATE_UP_PROJ == <<"g","a","t","e","_","u","p","_","p","r","o","j">>
GATE_PROJ == <<"g","a","t","e","_","p","r","o","j">>
UP_PROJ == <<"u","p","_","p","r","o","j">>
DOWN_PROJ == <<"d","o","w","n","_","p","r","o","j">>
GATE == <<"g","a","t","e">>
INPUT_LAYERNORM == <<".","i","n","p","u","t","_","l","a","y","e","r","n","o","r","m">>
POST_ATTENTION_LAYERNORM == <<".","p","o","s","t","_","a","t","t","e","n","t","i","o","n","_","l","a","y","e","r","n","o","r","m">>
EMBED_TOKENS == <<"m","o","d","e","l",".","e","m","b","e","d","_","t","o","k","e","n","s">>
MODEL_NORM == <<"m","o","d","e","l",".","n","o","r","m">>
LM_HEAD == <<"l","m","_","h","e","a","d">>
Digits == <<"0","1","2","3","4","5","6","7","8","9">>

\* str(n) for 0 <= n <= 9
Str(n) == <<Digits[n + 1]>>

\* Python: sub in s
Contains(sub, s) ==
    \E k \in 1..(Len(s) - Len(sub) + 1) : SubSeq(s, k, k + Len(sub) - 1) = sub

\* Python: s.endswith(suffix)
EndsWith(s, suffix) ==
    /\ Len(s) >= Len(suffix)
    /\ SubSeq(s, Len(s) - Len(suffix) + 1, Len(s)) = suffix

\* Python: s.replace(old, new): every non-overlapping occurrence, left to right
RECURSIVE Replace(_, _, _)
Replace(s, old, new) ==
    IF Len(s) < Len(old) THEN s
    ELSE IF SubSeq(s, 1, Len(old)) = old
         THEN new \o Replace(SubSeq(s, Len(old) + 1, Len(s)), old, new)
         ELSE <<Head(s)>> \o Replace(Tail(s), old, new)

(***************************************************************************)
(* The in-memory model: which feed-forward block a layer has, and the      *)
(* names named_parameters() gives.                                         *)
(***************************************************************************)

\* faulty variant: the frequency test left out
IsMoELayerNoFreq(cfg, layer_idx) ==
    /\ ~IsNone(cfg.n_routed_experts)
    /\ layer_idx >= cfg.first_k_dense_replace

\* DeepseekDecoderLayer.__init__: the condition that chooses DeepseekMoE
IsMoELayer(cfg, layer_idx) ==
    /\ ~IsNone(cfg.n_routed_experts)
    /\ layer_idx >= cfg.first_k_dense_replace
    /\ layer_idx % cfg.moe_layer_freq = 0

LayerPrefix(l) == MODEL_LAYERS \o Str(l)

\* DeepseekMLP.__init__: the parameters of one gated MLP under `prefix`
MLPParamNames(prefix, merged) ==
    (IF merged
     THEN {prefix \o GATE_UP_PROJ \o WEIGHT_SUFFIX}
     ELSE {prefix \o GATE_PROJ \o WEIGHT_SUFFIX, prefix \o UP_PROJ \o WEIGHT_SUFFIX})
    \cup {prefix \o DOWN_PROJ \o WEIGHT_SUFFIX}

\* DeepseekAttention.__init__: the parameters of one attention block
AttentionParamNames(l, merged) ==
    LET prefix == LayerPrefix(l) \o SELF_ATTN
    IN  (IF merged
         THEN {prefix \o QKV_PROJ \o WEIGHT_SUFFIX}
         ELSE {prefix \o Q_PROJ \o WEIGHT_SUFFIX, prefix \o K_PROJ \o WEIGHT_SUFFIX,
               prefix \o V_PROJ \o WEIGHT_SUFFIX})
        \cup {prefix \o O_PROJ \o WEIGHT_SUFFIX}

\* DeepseekMoE.__init__: experts, router gate and shared experts
MoEParamNames(cfg, l, merged) ==
    LET prefix == LayerPrefix(l) \o DOT
    IN  UNION {MLPParamNames(prefix \o MLP_EXPERTS \o Str(e) \o DOT, merged) :
                 e \in 0..(Val(cfg.n_routed_experts) - 1)}
        \cup {prefix \o MLP_DOT \o GATE \o WEIGHT_SUFFIX}
        \cup (IF IsNone(cfg.n_shared_experts) THEN {}
              ELSE MLPParamNames(prefix \o MLP_SHARED_EXPERTS, merged))

\* DeepseekDecoderLayer.__init__: the parameters of decoder layer l
LayerParamNames(cfg, l, merged) ==
    AttentionParamNames(l, merged)
    \cup (IF IsMoELayer(cfg, l)
          THEN MoEParamNames(cfg, l, merged)
          ELSE MLPParamNames(LayerPrefix(l) \o DOT \o MLP_DOT, merged))
    \cup {LayerPrefix(l) \o INPUT_LAYERNORM \o WEIGHT_SUFFIX,
          LayerPrefix(l) \o POST_ATTENTION_LAYERNORM \o WEIGHT_SUFFIX}

\* dict(self.named_parameters()).keys()
ParamNames(cfg, merged) ==
    UNION {LayerParamNames(cfg, l, merged) : l \in 0..(cfg.num_hidden_layers - 1)}
    \cup {EMBED_TOKENS \o WEIGHT_SUFFIX, MODEL_NORM \o WEIGHT_SUFFIX,
          LM_HEAD \o WEIGHT_SUFFIX}

(***************************************************************************)
(* load_weights.                                                           *)
(***************************************************************************)

\* faulty variant: k_proj carries q's shard id
stacked_params_mapping_KAsQ(merged) ==
    IF merged
    THEN << [param_name |-> QKV_PROJ, weight_name |-> Q_PROJ, shard_id |-> "q"],
            [param_name |-> QKV_PROJ, weight_name |-> K_PROJ, shard_id |-> "q"],
            [param_name |-> QKV_PROJ, weight_name |-> V_PROJ, shard_id |-> "v"],
            [param_name |-> GATE_UP_PROJ, weight_name |-> GATE_PROJ, shard_id |-> "0"],
            [param_name |-> GATE_UP_PROJ, weight_name |-> UP_PROJ, shard_id |-> "1"] >>
    ELSE << >>

\* faulty variant: the shard ids of gate_proj and up_proj exchanged
stacked_params_mapping_Swapped(merged) ==
    IF merged
    THEN << [param_name |-> QKV_PROJ, weight_name |-> Q_PROJ, shard_id |-> "q"],
            [param_name |-> QKV_PROJ, weight_name |-> K_PROJ, shard_id |-> "k"],
            [param_name |-> QKV_PROJ, weight_name |-> V_PROJ, shard_id |-> "v"],
            [param_name |-> GATE_UP_PROJ, weight_name |-> GATE_PROJ, shard_id |-> "1"],
            [param_name |-> GATE_UP_PROJ, weight_name |-> UP_PROJ, shard_id |-> "0"] >>
    ELSE << >>

\* load_weights: the table, (param_name, shard_name, shard_id) in source order;
\* emptied when the quantization backend does not merge weights.  The integer
\* shard ids 0 and 1 are written "0" and "1".
stacked_params_mapping(merged) ==
    IF merged
    THEN << [param_name |-> QKV_PROJ, weight_name |-> Q_PROJ, shard_id |-> "q"],
            [param_name |-> QKV_PROJ, weight_name |-> K_PROJ, shard_id |-> "k"],
            [param_name |-> QKV_PROJ, weight_name |-> V_PROJ, shard_id |-> "v"],
            [param_name |-> GATE_UP_PROJ, weight_name |-> GATE_PROJ, shard_id |-> "0"],
            [param_name |-> GATE_UP_PROJ, weight_name |-> UP_PROJ, shard_id |-> "1"] >>
    ELSE << >>

\* the two skip tests both branches of load_weights make on a name
SkipBias(name, params_dict) == EndsWith(name, BIAS_SUFFIX) /\ name \notin params_dict

\* faulty variant: the shared experts forgotten
SkipExpertRoutedOnly(name, params_dict) ==
    /\ Contains(MLP_EXPERTS, name)
    /\ name \notin params_dict

SkipExpert(name, params_dict) ==
    /\ Contains(MLP_EXPERTS, name) \/ Contains(MLP_SHARED_EXPERTS, name)
    /\ name \notin params_dict

\* faulty variant: a name the model does not have is passed over
ElseBranchIgnoresUnknown(name, params_dict) ==
    IF name \notin params_dict
    THEN [result |-> "skip", name |-> name, shard_id |-> {}, stacked |-> FALSE]
    ELSE [result |-> "load", name |-> name, shard_id |-> {}, stacked |-> FALSE]

\* the for-loop's else clause: no table entry ended in a load
ElseBranch(name, params_dict) ==
    IF SkipBias(name, params_dict) \/ SkipExpert(name, params_dict)
    THEN [result |-> "skip", name |-> name, shard_id |-> {}, stacked |-> FALSE]
    ELSE IF name \notin params_dict
    THEN [result |-> "KeyError", name |-> name, shard_id |-> {}, stacked |-> FALSE]
    ELSE [result |-> "load", name |-> name, shard_id |-> {}, stacked |-> FALSE]

\* the inner for-loop over the table, from entry k on.  `continue` goes on
\* with the next table entry and keeps the rewritten name.
RECURSIVE StackedLoop(_, _, _, _)
StackedLoop(name, k, mapping, params_dict) ==
    IF k > Len(mapping) THEN ElseBranch(name, params_dict)
    ELSE IF ~Contains(mapping[k].weight_name, name)
    THEN StackedLoop(name, k + 1, mapping, params_dict)
    ELSE LET renamed == Replace(name, mapping[k].weight_name, mapping[k].param_name)
         IN  IF SkipBias(renamed, params_dict) \/ SkipExpert(renamed, params_dict)
             THEN StackedLoop(renamed, k + 1, mapping, params_dict)
             ELSE IF renamed \notin params_dict
             THEN [result |-> "KeyError", name |-> renamed, shard_id |-> {},
                   stacked |-> TRUE]
             ELSE [result |-> "load", name |-> renamed,
                   shard_id |-> {mapping[k].shard_id}, stacked |-> TRUE]

\* one iteration of the loop over the checkpoint
LoadOne(name, mapping, params_dict) ==
    IF Contains(ROTARY_INV_FREQ, name)
    THEN [result |-> "skip", name |-> name, shard_id |-> {}, stacked |-> FALSE]
    ELSE StackedLoop(name, 1, mapping, params_dict)

\* the slices a parameter is loaded by: a fused parameter has one per shard id
Slices(name) ==
    IF Contains(QKV_PROJ, name) THEN {"q", "k", "v"}
    ELSE IF Contains(GATE_UP_PROJ, name) THEN {"0", "1"}
    ELSE {"all"}

\* param.weight_loader / default_weight_loader: a call with a shard id writes
\* that slice, a call without one writes the whole parameter
WeightLoader(param, loaded_weight, shard_id) ==
    [s \in DOMAIN param |->
        IF IsNone(shard_id) \/ s \in shard_id THEN {loaded_weight} ELSE param[s]]

\* getattr(param, "weight_loader", default_weight_loader): the norm weights
\* carry no weight_loader attribute
LoaderOf(name, stacked) ==
    IF stacked \/ ~Contains(NORM, name) THEN "weight_loader"
    ELSE "default_weight_loader"

LoadEntry ==
    /\ phase = "load"
    /\ status = "loading"
    /\ it <= Len(ckpt)
    /\ LET r == LoadOne(ckpt[it], stacked_params_mapping(merge_weight), DOMAIN params)
           entry == [entry |-> ckpt[it], pos |-> it, name |-> r.name,
                     result |-> r.result, shard_id |-> r.shard_id,
                     stacked |-> r.stacked]
       IN  /\ log' = Append(log, entry)
           /\ IF r.result = "load"
              THEN /\ calls' = Append(calls,
                                  [param |-> r.name, loaded_weight |-> it,
                                   shard_id |-> r.shard_id,
                                   loader |-> LoaderOf(r.name, r.stacked)])
                   /\ params' = [params EXCEPT
                                   ![r.name] = WeightLoader(@, it, r.shard_id)]
                   /\ it' = it + 1
                   /\ status' = status
              ELSE IF r.result = "skip"
              THEN /\ it' = it + 1
                   /\ UNCHANGED <<calls, params, status>>
              ELSE /\ status' = "KeyError"
                   /\ UNCHANGED <<calls, params, it>>
    /\ UNCHANGED <<config, merge_weight, tp_size, ckpt, phase, attn>>
    /\ UNCHANGED fwdVars
    /\ UNCHANGED moeVars

\* the iterator is exhausted: load_weights returns
LoadReturn ==
    /\ phase = "load"
    /\ status = "loading"
    /\ it > Len(ckpt)
    /\ status' = "done"
    /\ UNCHANGED <<config, merge_weight, tp_size, ckpt, it, params, calls, log,
                   phase, attn>>
    /\ UNCHANGED fwdVars
    /\ UNCHANGED moeVars

(***************************************************************************)
(* The checkpoints load_weights is run on.                                 *)
(***************************************************************************)
RECURSIVE SeqOf(_)
SeqOf(S) == IF S = {} THEN << >>
            ELSE LET x == CHOOSE y \in S : TRUE IN <<x>> \o SeqOf(S \ {x})

Reverse(s) == [k \in 1..Len(s) |-> s[Len(s) + 1 - k]]
Rotate(s, n) == SubSeq(s, n + 1, Len(s)) \o SubSeq(s, 1, n)
Range(s) == {s[k] : k \in DOMAIN s}

\* names a checkpoint may hold for a model of this configuration: both naming
\* conventions, biases, rotary tables, experts the model has and has not,
\* and a layer the model does not have
NamePool(cfg) ==
    LET a == LayerPrefix(0) \o SELF_ATTN
        d == LayerPrefix(0) \o DOT \o MLP_DOT
        m == LayerPrefix(cfg.num_hidden_layers - 1) \o DOT \o MLP_DOT
        x == m \o <<"e","x","p","e","r","t","s",".">>
        sh == m \o <<"s","h","a","r","e","d","_","e","x","p","e","r","t","s",".">>
    IN  {a \o p \o WEIGHT_SUFFIX : p \in {Q_PROJ, K_PROJ, V_PROJ, QKV_PROJ}}
        \cup {a \o Q_PROJ \o BIAS_SUFFIX, a \o ROTARY_INV_FREQ,
              LM_HEAD \o BIAS_SUFFIX,
              MODEL_NORM \o WEIGHT_SUFFIX,
              LayerPrefix(cfg.num_hidden_layers) \o SELF_ATTN \o O_PROJ \o WEIGHT_SUFFIX,
              m \o GATE \o WEIGHT_SUFFIX}
        \cup {d \o p \o WEIGHT_SUFFIX : p \in {GATE_PROJ, UP_PROJ, GATE_UP_PROJ}}
        \cup {x \o Str(0) \o DOT \o p \o WEIGHT_SUFFIX :
                p \in {GATE_PROJ, GATE_UP_PROJ, DOWN_PROJ}}
        \cup {x \o Str(MaxExperts) \o DOT \o DOWN_PROJ \o WEIGHT_SUFFIX}
        \cup {sh \o p \o WEIGHT_SUFFIX : p \in {GATE_PROJ, GATE_UP_PROJ, DOWN_PROJ}}

\* a split-layout checkpoint of the whole model: the names of the model built
\* with separate q/k/v and gate/up projections
SplitCheckpointNames(cfg) == ParamNames(cfg, FALSE)

\* the q_proj, k_proj and v_proj entries of attention layer l
QKVEntries(l) ==
    {LayerPrefix(l) \o SELF_ATTN \o p \o WEIGHT_SUFFIX : p \in {Q_PROJ, K_PROJ, V_PROJ}}

Checkpoints(cfg) ==
    LET s == SeqOf(SplitCheckpointNames(cfg))
    IN  UNION {[1..n -> NamePool(cfg)] : n \in 0..MaxLen}
        \cup {q \in [1..Cardinality(QKVEntries(0)) -> QKVEntries(0)] :
                Range(q) = QKVEntries(0)}
        \cup {Rotate(s, n) : n \in 0..(Len(s) - 1)}
        \cup {Rotate(Reverse(s), n) : n \in 0..(Len(s) - 1)}

HasMoELayer(cfg) == \E l \in 0..(cfg.num_hidden_layers - 1) : IsMoELayer(cfg, l)

LoadConfigs ==
    {[num_hidden_layers |-> MaxLayers, n_routed_experts |-> r, n_shared_experts |-> sh,
      first_k_dense_replace |-> 1, moe_layer_freq |-> 1,
      num_attention_heads |-> MaxHeads, num_key_value_heads |-> MaxHeads,
      hidden_act |-> "silu", norm_topk_prob |-> FALSE] :
        r \in {{}, {MaxExperts}}, sh \in {{}, {1}}}

\* the state when load_weights is entered.  pack_params reads
\* expert.gate_up_proj, so a model with an MoE layer exists only merged.
InitLoad ==
    /\ config \in {c \in LoadConfigs : IsNone(c.n_routed_experts) => IsNone(c.n_shared_experts)}
    /\ merge_weight \in {b \in BOOLEAN : b \/ ~HasMoELayer(config)}
    /\ tp_size = 1
    /\ ckpt \in Checkpoints(config)
    /\ it = 1
    /\ params = [n \in ParamNames(config, merge_weight) |-> [s \in Slices(n) |-> {}]]
    /\ calls = << >>
    /\ log = << >>
    /\ status = "loading"
    /\ phase = "load"
    /\ attn = {}
    /\ layers = << >>
    /\ i = 0
    /\ hidden_states = [by |-> "none", layer |-> 0]
    /\ residual = {}
    /\ trace = << >>
    /\ layer_calls = << >>
    /\ IdleMoE

NextLoad == LoadEntry \/ LoadReturn

SpecLoad == InitLoad /\ [][NextLoad]_vars

(***************************************************************************)
(* Construction.                                                           *)
(***************************************************************************)

Max(a, b) == IF a >= b THEN a ELSE b

\* faulty variant: the per-worker key/value head count not raised to 1
AttentionInitNoMax(num_heads, num_kv_heads, tp) ==
    IF num_heads % tp # 0 THEN [ok |-> FALSE, num_heads |-> 0, num_kv_heads |-> 0]
    ELSE IF (IF num_kv_heads >= tp THEN num_kv_heads % tp # 0
                                   ELSE tp % num_kv_heads # 0)
    THEN [ok |-> FALSE, num_heads |-> 0, num_kv_heads |-> 0]
    ELSE [ok |-> TRUE, num_heads |-> num_heads \div tp,
          num_kv_heads |-> num_kv_heads \div tp]

\* DeepseekAttention.__init__: the three assertions and the per-worker counts;
\* ok is FALSE when an assertion fails
AttentionInit(num_heads, num_kv_heads, tp) ==
    IF num_heads % tp # 0 THEN [ok |-> FALSE, num_heads |-> 0, num_kv_heads |-> 0]
    ELSE IF (IF num_kv_heads >= tp THEN num_kv_heads % tp # 0
                                   ELSE tp % num_kv_heads # 0)
    THEN [ok |-> FALSE, num_heads |-> 0, num_kv_heads |-> 0]
    ELSE [ok |-> TRUE, num_heads |-> num_heads \div tp,
          num_kv_heads |-> Max(1, num_kv_heads \div tp)]

\* DeepseekMLP.__init__: the layout, the down-projection's reduce_results flag,
\* and the activation check
MLPInit(hidden_act, merged, reduce_results) ==
    [ok |-> hidden_act = "silu", merge_weight |-> merged,
     reduce_results |-> reduce_results]

\* the default of DeepseekMLP.__init__'s reduce_results parameter
MLPReduceResultsDefault == TRUE

\* faulty variant: the shared experts built with reduce_results on
MoEInitSharedReduces(cfg, merged, tp) ==
    LET n == Val(cfg.n_routed_experts)
        experts == [e \in 1..n |-> MLPInit(cfg.hidden_act, merged, FALSE)]
    IN  [kind |-> "DeepseekMoE",
         ok |-> /\ tp <= n
                /\ \A e \in 1..n : experts[e].ok /\ experts[e].merge_weight
                /\ IsNone(cfg.n_shared_experts) \/ cfg.hidden_act = "silu",
         experts |-> experts,
         shared_experts |-> IF IsNone(cfg.n_shared_experts) THEN {}
                            ELSE {MLPInit(cfg.hidden_act, merged, TRUE)},
         dense |-> {}]

\* DeepseekMoE.__init__: the worker-count check, one DeepseekMLP per routed
\* expert without reduction, pack_params (which reads expert.gate_up_proj, an
\* attribute only the merged layout has), and the shared experts
MoEInit(cfg, merged, tp) ==
    LET n == Val(cfg.n_routed_experts)
        experts == [e \in 1..n |-> MLPInit(cfg.hidden_act, merged, FALSE)]
    IN  [kind |-> "DeepseekMoE",
         ok |-> /\ tp <= n
                /\ \A e \in 1..n : experts[e].ok /\ experts[e].merge_weight
                /\ IsNone(cfg.n_shared_experts) \/ cfg.hidden_act = "silu",
         experts |-> experts,
         shared_experts |-> IF IsNone(cfg.n_shared_experts) THEN {}
                            ELSE {MLPInit(cfg.hidden_act, merged, FALSE)},
         dense |-> {}]

\* faulty variant: the dense block built with reduce_results off
DenseInitNoReduce(cfg, merged) ==
    LET mlp == MLPInit(cfg.hidden_act, merged, FALSE)
    IN  [kind |-> "DeepseekMLP", ok |-> mlp.ok, experts |-> << >>,
         shared_experts |-> {}, dense |-> {mlp}]

\* DeepseekDecoderLayer.__init__: the dense feed-forward block, built with
\* reduce_results left at its default
DenseInit(cfg, merged) ==
    LET mlp == MLPInit(cfg.hidden_act, merged, MLPReduceResultsDefault)
    IN  [kind |-> "DeepseekMLP", ok |-> mlp.ok, experts |-> << >>,
         shared_experts |-> {}, dense |-> {mlp}]

\* DeepseekDecoderLayer.__init__
DecoderLayerInit(cfg, layer_idx, merged, tp) ==
    LET self_attn == AttentionInit(cfg.num_attention_heads,
                                   cfg.num_key_value_heads, tp)
        mlp == IF IsMoELayer(cfg, layer_idx) THEN MoEInit(cfg, merged, tp)
               ELSE DenseInit(cfg, merged)
    IN  [layer_idx |-> layer_idx, ok |-> self_attn.ok /\ mlp.ok,
         self_attn |-> self_attn, mlp |-> mlp]

\* DeepseekModel.__init__: the layers are built in index order; an error in
\* any constructor aborts construction
ModelInit ==
    /\ phase = "new"
    /\ LET built == [l \in 1..config.num_hidden_layers |->
                        DecoderLayerInit(config, l - 1, merge_weight, tp_size)]
       IN  IF \A l \in DOMAIN built : built[l].ok
           THEN layers' = built /\ phase' = "ready"
           ELSE layers' = << >> /\ phase' = "error"
    /\ UNCHANGED <<config, merge_weight, tp_size, attn, i, hidden_states,
                   residual, trace, layer_calls>>
    /\ UNCHANGED loadVars
    /\ UNCHANGED moeVars

\* DeepseekAttention.__init__ on its own
ConstructAttention ==
    /\ phase = "attn"
    /\ IsNone(attn)
    /\ attn' = {AttentionInit(config.num_attention_heads,
                              config.num_key_value_heads, tp_size)}
    /\ UNCHANGED <<config, merge_weight, tp_size, phase>>
    /\ UNCHANGED fwdVars
    /\ UNCHANGED loadVars
    /\ UNCHANGED moeVars

(***************************************************************************)
(* Forward.  A value is named by the operation that produced it; the trace *)
(* lists the operations in execution order.                                *)
(***************************************************************************)

Ev(op, layer, by) == [op |-> op, layer |-> layer, by |-> by]

\* RowParallelLinear.forward: the matrix product, then the all-reduce of its
\* output when reduce_results is set
RowParallelLinear(reduce_results, layer, by) ==
    <<Ev("matmul", layer, by)>> \o
    (IF reduce_results THEN <<Ev("all_reduce", layer, by)>> ELSE << >>)

\* DeepseekMLP.forward
MLPForward(mlp, layer, by) ==
    (IF mlp.merge_weight
     THEN <<Ev("gate_up_proj", layer, by)>>
     ELSE <<Ev("up_proj", layer, by), Ev("gate_proj", layer, by), Ev("cat", layer, by)>>)
    \o <<Ev("act_fn", layer, by)>>
    \o RowParallelLinear(mlp.reduce_results, layer, by \o ".down_proj")

\* DeepseekMoE.forward
MoEForward(cfg, moe, layer) ==
    (IF ~IsNone(cfg.n_shared_experts)
     THEN MLPForward(Val(moe.shared_experts), layer, "mlp.shared_experts")
     ELSE << >>)
    \o <<Ev("gate", layer, "mlp"), Ev("softmax", layer, "mlp"), Ev("topk", layer, "mlp")>>
    \o (IF cfg.norm_topk_prob THEN <<Ev("renormalize", layer, "mlp")>> ELSE << >>)
    \o <<Ev("fused_moe", layer, "mlp")>>
    \o (IF ~IsNone(cfg.n_shared_experts) THEN <<Ev("add_shared_output", layer, "mlp")>>
        ELSE << >>)
    \o <<Ev("all_reduce", layer, "mlp")>>

\* DeepseekAttention.forward; o_proj is a RowParallelLinear built with
\* reduce_results left at its default, which reduces
AttentionForward(merged, layer) ==
    (IF merged THEN <<Ev("qkv_proj", layer, "self_attn")>>
     ELSE <<Ev("q_proj", layer, "self_attn"), Ev("k_proj", layer, "self_attn"),
            Ev("v_proj", layer, "self_attn")>>)
    \o <<Ev("rotary_emb", layer, "self_attn"), Ev("attn", layer, "self_attn")>>
    \o RowParallelLinear(TRUE, layer, "self_attn.o_proj")

Value(by, layer) == [by |-> by, layer |-> layer]

\* faulty variant: the layer returns no residual
DecoderLayerForwardDropsResidual(cfg, merged, layer, hidden, res) ==
    LET l == layer.layer_idx
    IN  [hidden_states |-> Value("mlp", l),
         residual |-> {},
         branch |-> IF IsNone(res) THEN "norm" ELSE "add_norm",
         residual_in_use |-> IF IsNone(res) THEN hidden
                             ELSE Value("input_layernorm.residual", l),
         events |-> <<Ev(IF IsNone(res) THEN "norm" ELSE "add_norm", l, "input_layernorm")>>
                    \o AttentionForward(merged, l)
                    \o <<Ev("add_norm", l, "post_attention_layernorm")>>
                    \o (IF layer.mlp.kind = "DeepseekMoE"
                        THEN MoEForward(cfg, layer.mlp, l)
                        ELSE MLPForward(Val(layer.mlp.dense), l, "mlp"))]

\* DeepseekDecoderLayer.forward: the result pair, the branch the input norm
\* took, the residual in use after it, and the operations executed
DecoderLayerForward(cfg, merged, layer, hidden, res) ==
    LET l == layer.layer_idx
    IN  [hidden_states |-> Value("mlp", l),
         residual |-> {Value("post_attention_layernorm.residual", l)},
         branch |-> IF IsNone(res) THEN "norm" ELSE "add_norm",
         residual_in_use |-> IF IsNone(res) THEN hidden
                             ELSE Value("input_layernorm.residual", l),
         events |-> <<Ev(IF IsNone(res) THEN "norm" ELSE "add_norm", l, "input_layernorm")>>
                    \o AttentionForward(merged, l)
                    \o <<Ev("add_norm", l, "post_attention_layernorm")>>
                    \o (IF layer.mlp.kind = "DeepseekMoE"
                        THEN MoEForward(cfg, layer.mlp, l)
                        ELSE MLPForward(Val(layer.mlp.dense), l, "mlp"))]

\* DeepseekModel.forward: embed_tokens, residual = None
ForwardEmbed ==
    /\ phase = "ready"
    /\ phase' = "running"
    /\ hidden_states' = Value("embed_tokens", 0)
    /\ residual' = {}
    /\ i' = 0
    /\ trace' = <<Ev("embed_tokens", 0, "model")>>
    /\ layer_calls' = << >>
    /\ UNCHANGED <<config, merge_weight, tp_size, layers, attn>>
    /\ UNCHANGED loadVars
    /\ UNCHANGED moeVars

\* the index of kv_caches the loop body passes to layer i
KVCacheIndex(idx) == idx

\* DeepseekModel.forward: one iteration of the loop over the layers
ForwardLayer ==
    /\ phase = "running"
    /\ i < Len(layers)
    /\ LET r == DecoderLayerForward(config, merge_weight, layers[i + 1],
                                    hidden_states, residual)
       IN  /\ hidden_states' = r.hidden_states
           /\ residual' = r.residual
           /\ trace' = trace \o r.events
           /\ layer_calls' = Append(layer_calls,
                  [layer |-> layers[i + 1].layer_idx, kv_cache |-> KVCacheIndex(i),
                   hidden_states |-> hidden_states, residual |-> residual,
                   branch |-> r.branch, residual_in_use |-> r.residual_in_use,
                   out_hidden_states |-> r.hidden_states, out_residual |-> r.residual])
    /\ i' = i + 1
    /\ UNCHANGED <<config, merge_weight, tp_size, layers, attn, phase>>
    /\ UNCHANGED loadVars
    /\ UNCHANGED moeVars

\* DeepseekModel.forward: self.norm(hidden_states, residual) and return
ForwardNorm ==
    /\ phase = "running"
    /\ i = Len(layers)
    /\ phase' = "returned"
    /\ trace' = Append(trace, Ev(IF IsNone(residual) THEN "norm" ELSE "add_norm",
                                 Len(layers), "model.norm"))
    /\ layer_calls' = Append(layer_calls,
           [layer |-> Len(layers), kv_cache |-> Len(layers),
            hidden_states |-> hidden_states, residual |-> residual,
            branch |-> IF IsNone(residual) THEN "norm" ELSE "add_norm",
            residual_in_use |-> hidden_states,
            out_hidden_states |-> Value("norm", Len(layers)), out_residual |-> {}])
    /\ hidden_states' = Value("norm", Len(layers))
    /\ UNCHANGED <<config, merge_weight, tp_size, layers, attn, i, residual>>
    /\ UNCHANGED loadVars
    /\ UNCHANGED moeVars

IdleLoad ==
    /\ ckpt = << >>
    /\ it = 1
    /\ params = << >>
    /\ calls = << >>
    /\ log = << >>
    /\ status = "idle"

IdleForward ==
    /\ layers = << >>
    /\ i = 0
    /\ hidden_states = Value("none", 0)
    /\ residual = {}
    /\ trace = << >>
    /\ layer_calls = << >>

BaseConfig ==
    [num_hidden_layers |-> 1, n_routed_experts |-> {}, n_shared_experts |-> {},
     first_k_dense_replace |-> 0, moe_layer_freq |-> 1,
     num_attention_heads |-> 1, num_key_value_heads |-> 1,
     hidden_act |-> "silu", norm_topk_prob |-> FALSE]

\* a model about to be constructed, on one worker of a group of tp_size
InitModel ==
    /\ config \in
         {[num_hidden_layers |-> n, n_routed_experts |-> r, n_shared_experts |-> sh,
           first_k_dense_replace |-> k, moe_layer_freq |-> f,
           num_attention_heads |-> MaxHeads, num_key_value_heads |-> MaxHeads,
           hidden_act |-> act, norm_topk_prob |-> np] :
             n \in 1..MaxLayers, r \in {{}} \cup {{e} : e \in 1..MaxExperts},
             sh \in {{}, {1}}, k \in 0..MaxLayers, f \in 1..MaxLayers,
             act \in {"silu", "gelu"}, np \in BOOLEAN}
    /\ merge_weight \in BOOLEAN
    /\ tp_size \in 1..MaxTP
    /\ phase = "new"
    /\ attn = {}
    /\ IdleLoad
    /\ IdleForward
    /\ IdleMoE

NextModel == ModelInit \/ ForwardEmbed \/ ForwardLayer \/ ForwardNorm

SpecModel == InitModel /\ [][NextModel]_vars

\* an attention block about to be constructed
InitAttn ==
    /\ config \in {[BaseConfig EXCEPT !.num_attention_heads = h,
                                      !.num_key_value_heads = kv] :
                     h \in 1..MaxHeads, kv \in 1..MaxHeads}
    /\ merge_weight = TRUE
    /\ tp_size \in 1..MaxTP
    /\ phase = "attn"
    /\ attn = {}
    /\ IdleLoad
    /\ IdleForward
    /\ IdleMoE

NextAttn == ConstructAttention

SpecAttn == InitAttn /\ [][NextAttn]_vars

(***************************************************************************)
(* DeepseekMoE.pack_params.  A tensor is a view (storage, offset, numel)   *)
(* of a storage; the heap holds the storages some tensor still refers to.  *)
(***************************************************************************)

\* the two banks: w1 packs expert.gate_up_proj.weight, w2 expert.down_proj.weight
Kinds == {"w1", "w2"}

WeightValues == 0..1

\* number of elements of one expert's weight: gate_up_proj is a merged column
\* projection to [moe_intermediate_size] * 2, down_proj projects back
Numel(kind, cfg) ==
    IF kind = "w1" THEN 2 * cfg.moe_intermediate_size * cfg.hidden_size
    ELSE cfg.hidden_size * cfg.moe_intermediate_size

\* the elements a view shows
ReadView(h, v) == SubSeq(h[v.storage], v.offset + 1, v.offset + v.numel)

\* self.w1[e] / self.w2[e] (e from 1): row e of the bank viewed as
\* (len(experts), *shape)
BankSlice(b, e) == [storage |-> b.storage, offset |-> (e - 1) * b.numel, numel |-> b.numel]

\* torch._utils._flatten_dense_tensors: the elements of the tensors, in order,
\* copied into one new contiguous buffer
RECURSIVE FlattenDenseTensors(_, _)
FlattenDenseTensors(h, tensors) ==
    IF tensors = << >> THEN << >>
    ELSE ReadView(h, Head(tensors)) \o FlattenDenseTensors(h, Tail(tensors))

RECURSIVE SumNumel(_)
SumNumel(tensors) ==
    IF tensors = << >> THEN 0 ELSE Head(tensors).numel + SumNumel(Tail(tensors))

\* torch._utils._unflatten_dense_tensors: views of the flat buffer, one per
\* tensor, each starting where the previous one ends
UnflattenDenseTensors(flat, tensors) ==
    [e \in DOMAIN tensors |->
        [storage |-> flat, offset |-> SumNumel(SubSeq(tensors, 1, e - 1)),
         numel |-> tensors[e].numel]]

\* faulty variant: the parameters keep their own storage
ReboundNot(tensors, datas) == tensors

\* for data, param in zip(w1s, w1): param.data = data
Rebound(tensors, datas) == [e \in DOMAIN tensors |-> datas[e]]

FreshStorage(h, k) ==
    (CHOOSE m \in DOMAIN h : \A o \in DOMAIN h : o <= m) + k

\* the storages a tensor of the block still refers to
Referenced(ws, bs) ==
    {ws[k][e].storage : k \in Kinds, e \in DOMAIN ws["w1"]}
    \cup {b.storage : b \in UNION {bs[k] : k \in Kinds}}

\* DeepseekMoE.pack_params, called once from __init__
PackParams ==
    /\ phase = "moe_init"
    /\ LET f1 == FreshStorage(heap, 1)
           f2 == FreshStorage(heap, 2)
           w1 == expert_w["w1"]
           w2 == expert_w["w2"]
           h == [id \in DOMAIN heap \cup {f1, f2} |->
                    IF id = f1 THEN FlattenDenseTensors(heap, w1)
                    ELSE IF id = f2 THEN FlattenDenseTensors(heap, w2)
                    ELSE heap[id]]
           ws == [k \in Kinds |->
                    IF k = "w1" THEN Rebound(w1, UnflattenDenseTensors(f1, w1))
                    ELSE Rebound(w2, UnflattenDenseTensors(f2, w2))]
           bs == [k \in Kinds |->
                    IF k = "w1"
                    THEN {[storage |-> f1, experts |-> Len(w1), numel |-> w1[1].numel]}
                    ELSE {[storage |-> f2, experts |-> Len(w2), numel |-> w2[1].numel]}]
       IN  /\ expert_w' = ws
           /\ bank' = bs
           /\ heap' = [id \in Referenced(ws, bs) |-> h[id]]
    /\ phase' = "packed"
    /\ UNCHANGED <<config, merge_weight, tp_size, attn, last_write, router_logits, routing>>
    /\ UNCHANGED fwdVars
    /\ UNCHANGED loadVars

\* an in-place write of one element
WriteAt(h, v, c, x) == [h EXCEPT ![v.storage][v.offset + c] = x]

\* weight loading: an in-place write into an expert's parameter (param.data)
WriteExpert ==
    /\ phase = "packed"
    /\ \E k \in Kinds : \E e \in DOMAIN expert_w[k] :
       \E c \in 1..expert_w[k][e].numel : \E x \in WeightValues :
          /\ heap' = WriteAt(heap, expert_w[k][e], c, x)
          /\ last_write' = {[kind |-> k, expert |-> e, cell |-> c, value |-> x,
                             via |-> "expert"]}
    /\ UNCHANGED <<config, merge_weight, tp_size, attn, phase, expert_w, bank,
                   router_logits, routing>>
    /\ UNCHANGED fwdVars
    /\ UNCHANGED loadVars

\* an in-place write into a bank position
WriteBank ==
    /\ phase = "packed"
    /\ \E k \in Kinds : \E e \in 1..Val(bank[k]).experts :
       \E c \in 1..Val(bank[k]).numel : \E x \in WeightValues :
          /\ heap' = WriteAt(heap, BankSlice(Val(bank[k]), e), c, x)
          /\ last_write' = {[kind |-> k, expert |-> e, cell |-> c, value |-> x,
                             via |-> "bank"]}
    /\ UNCHANGED <<config, merge_weight, tp_size, attn, phase, expert_w, bank,
                   router_logits, routing>>
    /\ UNCHANGED fwdVars
    /\ UNCHANGED loadVars

\* the configuration of one MoE block with n routed experts
MoEConfig(n, top_k, norm) ==
    [num_hidden_layers |-> 1, n_routed_experts |-> {n}, n_shared_experts |-> {},
     first_k_dense_replace |-> 0, moe_layer_freq |-> 1,
     num_attention_heads |-> 1, num_key_value_heads |-> 1,
     hidden_act |-> "silu", norm_topk_prob |-> norm, num_experts_per_tok |-> top_k,
     hidden_size |-> 1, moe_intermediate_size |-> 1]

\* DeepseekMoE.__init__ up to the call of pack_params: every expert's two
\* weights in a storage of their own, holding whatever they were created with
InitPack ==
    /\ config \in {MoEConfig(n, 1, FALSE) : n \in 1..MaxExperts}
    /\ merge_weight = TRUE
    /\ tp_size = 1
    /\ phase = "moe_init"
    /\ attn = {}
    /\ LET n == Val(config.n_routed_experts)
           kindOf(id) == IF id <= n THEN "w1" ELSE "w2"
       IN  /\ expert_w = [k \in Kinds |-> [e \in 1..n |->
                            [storage |-> IF k = "w1" THEN e ELSE n + e, offset |-> 0,
                             numel |-> Numel(k, config)]]]
           /\ heap \in {h \in [1..(2 * n) ->
                                 UNION {[1..Numel(k, config) -> WeightValues] : k \in Kinds}] :
                          \A id \in 1..(2 * n) : Len(h[id]) = Numel(kindOf(id), config)}
    /\ bank = [k \in Kinds |-> {}]
    /\ last_write = {}
    /\ router_logits = << >>
    /\ routing = {}
    /\ IdleLoad
    /\ IdleForward

NextPack == PackParams \/ WriteExpert \/ WriteBank

SpecPack == InitPack /\ [][NextPack]_vars

(***************************************************************************)
(* DeepseekMoE.forward: the routing decision.  Probabilities are exact     *)
(* fractions num/den; the exponential of the softmax is taken to base 2 so *)
(* that it stays in the integers.                                          *)
(***************************************************************************)

RouterLogits == 0..2

RECURSIVE Exp(_)
Exp(x) == IF x = 0 THEN 1 ELSE 2 * Exp(x - 1)

RECURSIVE SumExp(_)
SumExp(row) == IF row = << >> THEN 0 ELSE Exp(Head(row)) + SumExp(Tail(row))

RECURSIVE GCD(_, _)
GCD(a, b) == IF b = 0 THEN a ELSE GCD(b, a % b)

\* the fraction num/den in lowest terms
Frac(num, den) == [num |-> num \div GCD(num, den), den |-> den \div GCD(num, den)]

\* F.softmax(router_logits, dim=1, dtype=torch.float), one row
Softmax(row) == [e \in DOMAIN row |-> Frac(Exp(row[e]), SumExp(row))]

FracGE(a, b) == a.num * b.den >= b.num * a.den

FracAdd(a, b) == Frac(a.num * b.den + b.num * a.den, a.den * b.den)

\* a / b
FracDiv(a, b) == Frac(a.num * b.den, a.den * b.num)

\* routing_weights.sum(dim=-1, keepdim=True), one row
RECURSIVE FracSum(_)
FracSum(ws) ==
    IF ws = << >> THEN [num |-> 0, den |-> 1] ELSE FracAdd(Head(ws), FracSum(Tail(ws)))

\* torch.topk(row, k, dim=-1).indices: every result topk may return.  The k
\* largest entries in descending order; among equal entries which ones are
\* taken, and in which order, is not specified.
TopK(row, k) ==
    {idx \in [1..k -> DOMAIN row] :
        /\ \A a, b \in 1..k : a < b => (idx[a] # idx[b] /\ FracGE(row[idx[a]], row[idx[b]]))
        /\ \A o \in DOMAIN row \ {idx[a] : a \in 1..k} : FracGE(row[idx[k]], row[o])}

\* faulty variant: the selected weights are passed on as they are
NormTopkProbNever(cfg, ws) == ws

\* if self.config.norm_topk_prob: routing_weights /= routing_weights.sum(...)
NormTopkProb(cfg, ws) ==
    IF cfg.norm_topk_prob THEN [a \in DOMAIN ws |-> FracDiv(ws[a], FracSum(ws))]
    ELSE ws

\* every (routing_weights, selected_experts) the forward call can pass to
\* fused_moe for the given rows of logits
RECURSIVE Routings(_, _)
Routings(logits, cfg) ==
    IF logits = << >>
    THEN {[routing_weights |-> << >>, selected_experts |-> << >>]}
    ELSE LET probs == Softmax(Head(logits))
         IN  {[routing_weights |->
                   <<NormTopkProb(cfg, [a \in DOMAIN idx |-> probs[idx[a]]])>>
                       \o rest.routing_weights,
               selected_experts |-> <<idx>> \o rest.selected_experts] :
                 idx \in TopK(probs, cfg.num_experts_per_tok),
                 rest \in Routings(Tail(logits), cfg)}

\* DeepseekMoE.forward from the gate to the call of fused_moe; torch.topk
\* raises when asked for more entries than there are experts
MoEForwardRouting ==
    /\ phase = "moe_forward"
    /\ IF config.num_experts_per_tok > Val(config.n_routed_experts)
       THEN /\ phase' = "error"
            /\ routing' = {}
       ELSE /\ phase' = "routed"
            /\ \E r \in Routings(router_logits, config) : routing' = {r}
    /\ UNCHANGED <<config, merge_weight, tp_size, attn, heap, expert_w, bank,
                   last_write, router_logits>>
    /\ UNCHANGED fwdVars
    /\ UNCHANGED loadVars

\* an MoE block at the entry of forward, after the gate has produced one row
\* of logits per token
InitRoute ==
    /\ config \in {MoEConfig(n, k, norm) :
                      n \in 1..MaxExperts, k \in 1..(MaxExperts + 1), norm \in BOOLEAN}
    /\ config.num_experts_per_tok <= Val(config.n_routed_experts) + 1
    /\ merge_weight = TRUE
    /\ tp_size = 1
    /\ phase = "moe_forward"
    /\ attn = {}
    /\ router_logits \in UNION {[1..t -> [1..Val(config.n_routed_experts) -> RouterLogits]] :
                                   t \in 1..MaxTokens}
    /\ routing = {}
    /\ heap = << >>
    /\ expert_w = << >>
    /\ bank = << >>
    /\ last_write = {}
    /\ IdleLoad
    /\ IdleForward

NextRoute == MoEForwardRouting

SpecRoute == InitRoute /\ [][NextRoute]_vars

(***************************************************************************)
(* Claims about load_weights.                                              *)
(***************************************************************************)

\* the name after the stacking table's rewrite: the first table entry whose
\* constituent occurs in the name replaces it; without a match, the name
RECURSIVE RewrittenFrom(_, _, _)
RewrittenFrom(name, k, mapping) ==
    IF k > Len(mapping) THEN [name |-> name, shard_id |-> {}]
    ELSE IF Contains(mapping[k].weight_name, name)
    THEN [name |-> Replace(name, mapping[k].weight_name, mapping[k].param_name),
          shard_id |-> {mapping[k].shard_id}]
    ELSE RewrittenFrom(name, k + 1, mapping)

\* the stacking table of the weight-loading protocol, in force in fused mode
TableInForce ==
    IF merge_weight
    THEN << [param_name |-> QKV_PROJ, weight_name |-> Q_PROJ, shard_id |-> "q"],
            [param_name |-> QKV_PROJ, weight_name |-> K_PROJ, shard_id |-> "k"],
            [param_name |-> QKV_PROJ, weight_name |-> V_PROJ, shard_id |-> "v"],
            [param_name |-> GATE_UP_PROJ, weight_name |-> GATE_PROJ, shard_id |-> "0"],
            [param_name |-> GATE_UP_PROJ, weight_name |-> UP_PROJ, shard_id |-> "1"] >>
    ELSE << >>

Rewritten(name) == RewrittenFrom(name, 1, TableInForce)

\* the in-memory parameters of which `name` is the split-convention name:
\* the parameter's name with one component, the fused target, replaced by a
\* constituent of that target
SplitNameOf(name) ==
    {t \in DOMAIN params :
        \E k \in 1..Len(TableInForce) : \E c \in 1..Len(t) :
            LET f == TableInForce[k].param_name
                w == TableInForce[k].weight_name
            IN  /\ t[c] = "."
                /\ c + Len(f) <= Len(t)
                /\ SubSeq(t, c + 1, c + Len(f)) = f
                /\ name = SubSeq(t, 1, c) \o w \o SubSeq(t, c + Len(f) + 1, Len(t))}

\* the in-memory fused parameters that `name` names as it stands
FusedNameOf(name) ==
    {t \in DOMAIN params :
        t = name /\ (Contains(QKV_PROJ, name) \/ Contains(GATE_UP_PROJ, name))}

\* C1: in fused-layout mode every checkpoint entry named with a split
\* constituent, and every entry already named with a fused target the model
\* has, is resolved to that in-memory parameter and loaded; none ends in a
\* lookup error.
C1_EitherConvention ==
    merge_weight =>
        \A k \in DOMAIN log :
            LET target == SplitNameOf(log[k].entry) \cup FusedNameOf(log[k].entry)
            IN  target # {} =>
                    /\ log[k].result = "load"
                    /\ log[k].name \in target

\* the split-convention half of C1 on its own
SplitConstituentsLoad ==
    merge_weight =>
        \A k \in DOMAIN log :
            SplitNameOf(log[k].entry) # {} =>
                log[k].result = "load" /\ log[k].name \in SplitNameOf(log[k].entry)

\* the (shard id, tensor) pairs the loader of parameter p was called with,
\* a tensor being named by the checkpoint entry it came from
LoaderPairs(p) ==
    {<<Val(calls[k].shard_id), ckpt[calls[k].loaded_weight]>> :
        k \in {j \in DOMAIN calls : calls[j].param = p /\ ~IsNone(calls[j].shard_id)}}

CallsTo(p) == {k \in DOMAIN calls : calls[k].param = p}

Occurrences(name) == {k \in DOMAIN ckpt : ckpt[k] = name}

HoldsOnce(names) == \A n \in names : Cardinality(Occurrences(n)) = 1

\* C2: in fused-layout mode, whatever the order in which a checkpoint yields
\* the q_proj, k_proj and v_proj entries of an attention layer, the qkv_proj
\* loader is called with the same three (shard id, tensor) pairs and the
\* parameter ends with slice q, k, v holding the q, k, v tensor.
C2_QKVOrderIndependent ==
    (merge_weight /\ status = "done") =>
        \A l \in 0..(config.num_hidden_layers - 1) :
            LET a == LayerPrefix(l) \o SELF_ATTN
                qkv == a \o QKV_PROJ \o WEIGHT_SUFFIX
                q == a \o Q_PROJ \o WEIGHT_SUFFIX
                kk == a \o K_PROJ \o WEIGHT_SUFFIX
                v == a \o V_PROJ \o WEIGHT_SUFFIX
            IN  HoldsOnce({q, kk, v}) =>
                    /\ LoaderPairs(qkv) = {<<"q", q>>, <<"k", kk>>, <<"v", v>>}
                    /\ Cardinality(CallsTo(qkv)) = Cardinality({q, kk, v})
                    /\ \A s \in {"q", "k", "v"} : ~IsNone(params[qkv][s])
                    /\ ckpt[Val(params[qkv]["q"])] = q
                    /\ ckpt[Val(params[qkv]["k"])] = kk
                    /\ ckpt[Val(params[qkv]["v"])] = v

C2_Witness ==
    LET a == LayerPrefix(0) \o SELF_ATTN
    IN  /\ merge_weight
        /\ status = "done"
        /\ ckpt = << a \o V_PROJ \o WEIGHT_SUFFIX, a \o K_PROJ \o WEIGHT_SUFFIX,
                     a \o Q_PROJ \o WEIGHT_SUFFIX >>
        /\ Len(calls) = Len(ckpt)

IsCompleteSplitCheckpoint ==
    /\ Range(ckpt) = SplitCheckpointNames(config)
    /\ Len(ckpt) = Cardinality(SplitCheckpointNames(config))

\* C3: a fused-layout model that has consumed a complete split-layout
\* checkpoint has had every gate_up_proj loader called exactly once with
\* shard 0 and the gate_proj tensor and exactly once with shard 1 and the
\* up_proj tensor, and no parameter is left without a load.
C3_SplitCheckpointPopulates ==
    (merge_weight /\ status = "done" /\ IsCompleteSplitCheckpoint) =>
        /\ \A p \in DOMAIN params :
              Contains(GATE_UP_PROJ, p) =>
                  /\ LoaderPairs(p) = {<<"0", Replace(p, GATE_UP_PROJ, GATE_PROJ)>>,
                                       <<"1", Replace(p, GATE_UP_PROJ, UP_PROJ)>>}
                  /\ Cardinality(CallsTo(p)) = Cardinality({"0", "1"})
                  /\ ckpt[Val(params[p]["0"])] = Replace(p, GATE_UP_PROJ, GATE_PROJ)
                  /\ ckpt[Val(params[p]["1"])] = Replace(p, GATE_UP_PROJ, UP_PROJ)
        /\ \A p \in DOMAIN params :
              /\ CallsTo(p) # {}
              /\ \A s \in DOMAIN params[p] : ~IsNone(params[p][s])

C3_Witness ==
    /\ merge_weight
    /\ status = "done"
    /\ IsCompleteSplitCheckpoint
    /\ HasMoELayer(config)
    /\ ~IsNone(config.n_shared_experts)
    /\ \E p \in DOMAIN params : Contains(GATE_UP_PROJ, p) /\ Contains(MLP_EXPERTS, p)
    /\ \E p \in DOMAIN params : Contains(GATE_UP_PROJ, p) /\ ~Contains(MLP_EXPERTS, p)
                                   /\ ~Contains(MLP_SHARED_EXPERTS, p)

\* the skip rules, on the entry's name and its rewritten form
SkipRule(name) ==
    \/ Contains(ROTARY_INV_FREQ, name)
    \/ /\ EndsWith(name, BIAS_SUFFIX) \/ EndsWith(Rewritten(name).name, BIAS_SUFFIX)
       /\ Rewritten(name).name \notin DOMAIN params
    \/ /\ Contains(MLP_EXPERTS, name) \/ Contains(MLP_SHARED_EXPERTS, name)
       /\ Rewritten(name).name \notin DOMAIN params

AtEntry == phase = "load" /\ status = "loading" /\ it <= Len(ckpt)

\* C4: an entry that is a rotary inverse-frequency table, or a bias or an
\* expert or shared-expert parameter that is not an in-memory parameter, is
\* skipped silently, in fused and in split mode: no loader call, no error,
\* no parameter changes, and loading goes on with the next entry.
C4_SilentSkip ==
    [][(AtEntry /\ SkipRule(ckpt[it])) =>
          /\ calls' = calls
          /\ params' = params
          /\ status' = "loading"
          /\ it' = it + 1
          /\ log'[Len(log')].result = "skip"]_vars

SkippedAs(k, seg) == log[k].result = "skip" /\ Contains(seg, log[k].entry)

C4_Witness ==
    /\ status = "done"
    /\ Len(log) = MaxLen
    /\ \E k \in DOMAIN log :
          \/ SkippedAs(k, ROTARY_INV_FREQ)
          \/ SkippedAs(k, BIAS_SUFFIX) /\ log[k].name # log[k].entry
    /\ \E k \in DOMAIN log : SkippedAs(k, MLP_EXPERTS) \/ SkippedAs(k, MLP_SHARED_EXPERTS)

\* C5: an entry that matches no skip rule is looked up under its (possibly
\* rewritten) exact name: absent, the load aborts and no loader is called;
\* present, exactly one loader call is made, with the recorded shard id and
\* the parameter's own loader when the table matched, else without a shard id.
C5_LookupAndLoad ==
    [][(AtEntry /\ ~SkipRule(ckpt[it])) =>
          LET r == Rewritten(ckpt[it])
          IN  IF r.name \notin DOMAIN params
              THEN status' = "KeyError" /\ calls' = calls /\ params' = params
              ELSE /\ status' = "loading"
                   /\ Len(calls') = Len(calls) + 1
                   /\ SubSeq(calls', 1, Len(calls)) = calls
                   /\ calls'[Len(calls')].param = r.name
                   /\ calls'[Len(calls')].loaded_weight = it
                   /\ calls'[Len(calls')].shard_id = r.shard_id
                   /\ IF IsNone(r.shard_id)
                      THEN calls'[Len(calls')].loader
                              \in {"weight_loader", "default_weight_loader"}
                      ELSE calls'[Len(calls')].loader = "weight_loader"
                   /\ \A p \in DOMAIN params : p # r.name => params'[p] = params[p]]_vars

C5_Witness ==
    /\ status = "KeyError"
    /\ Len(calls) > 0
    /\ ~IsNone(calls[Len(calls)].shard_id)
    /\ log[Len(log)].result = "KeyError"
    /\ ~merge_weight \/ log[Len(log)].name # log[Len(log)].entry

(***************************************************************************)
(* Claims about construction and the forward pass.                         *)
(***************************************************************************)

Built == phase \in {"ready", "running", "returned"}

\* the operations of the trace that layer l's feed-forward block executed
BlockEvents(l) ==
    SelectSeq(trace, LAMBDA e :
        e.layer = l /\ e.by \in {"mlp", "mlp.down_proj", "mlp.shared_experts",
                                 "mlp.shared_experts.down_proj"})

\* the cross-worker reductions among the operations of layer l
LayerReduces(l) ==
    SelectSeq(trace, LAMBDA e :
        e.layer = l /\ e.op = "all_reduce" /\ e.by # "model" /\ e.by # "model.norm")

Positions(s, op) == {j \in DOMAIN s : s[j].op = op}

\* the decoder layers whose forward call has returned
Completed == {layer_calls[k].layer : k \in {j \in DOMAIN layer_calls : j <= Len(layers)}}

\* C6: one MoE block forward performs exactly one all-reduce, as its last
\* operation, after the routed output and (when configured) the shared-expert
\* output have been summed; no expert and no shared-expert down-projection
\* reduces on its own, each being built with reduce_results off.
C6_MoESingleAllReduce ==
    \A l \in Completed :
        layers[l + 1].mlp.kind = "DeepseekMoE" =>
            LET ev == BlockEvents(l)
                moe == layers[l + 1].mlp
            IN  /\ Cardinality(Positions(ev, "all_reduce")) = 1
                /\ ev[Len(ev)] = Ev("all_reduce", l, "mlp")
                /\ Cardinality(Positions(ev, "fused_moe")) = 1
                /\ \A e \in DOMAIN moe.experts : ~moe.experts[e].reduce_results
                /\ IsNone(config.n_shared_experts) =>
                      /\ Positions(ev, "add_shared_output") = {}
                      /\ IsNone(moe.shared_experts)
                /\ ~IsNone(config.n_shared_experts) =>
                      /\ ~Val(moe.shared_experts).reduce_results
                      /\ \E a \in Positions(ev, "matmul") :
                         \E b \in Positions(ev, "fused_moe") :
                         \E c \in Positions(ev, "add_shared_output") :
                            /\ ev[a].by = "mlp.shared_experts.down_proj"
                            /\ a < c /\ b < c /\ c < Len(ev)

C6_Witness ==
    /\ phase = "returned"
    /\ tp_size > 1
    /\ ~IsNone(config.n_shared_experts)
    /\ \E l \in Completed : layers[l + 1].mlp.kind = "DeepseekMoE"
    /\ \E l \in Completed : layers[l + 1].mlp.kind = "DeepseekMLP"

\* C7 as stated: the only cross-worker reductions of a forward call are the
\* MoE block's all-reduce and the attention output projection's; no dense
\* feed-forward block reduces.
C7_OnlyMoEAndAttentionReduce ==
    \A k \in DOMAIN trace :
        trace[k].op = "all_reduce" =>
            \/ trace[k].by = "self_attn.o_proj"
            \/ /\ trace[k].by = "mlp"
               /\ layers[trace[k].layer + 1].mlp.kind = "DeepseekMoE"

\* C7 amended: every decoder layer performs exactly two cross-worker
\* reductions, first the attention output projection's and then its
\* feed-forward block's: the MoE block's single all-reduce, or the dense
\* block's down-projection reduce; experts and shared experts never reduce.
C7_LayerReductions ==
    /\ \A l \in Completed :
          LayerReduces(l) =
              << Ev("all_reduce", l, "self_attn.o_proj"),
                 Ev("all_reduce", l, IF layers[l + 1].mlp.kind = "DeepseekMoE"
                                     THEN "mlp" ELSE "mlp.down_proj") >>
    /\ \A k \in DOMAIN trace :
          trace[k].op = "all_reduce" =>
              trace[k].by \in {"self_attn.o_proj", "mlp", "mlp.down_proj"}

C7_Witness ==
    /\ phase = "returned"
    /\ tp_size > 1
    /\ \E l \in Completed : layers[l + 1].mlp.kind = "DeepseekMoE"
    /\ \E l \in Completed :
          /\ layers[l + 1].mlp.kind = "DeepseekMLP"
          /\ \E k \in DOMAIN trace : trace[k] = Ev("all_reduce", l, "mlp.down_proj")

Divides(a, b) == b % a = 0

\* heads split across the workers, or replicated across them
Compatible(heads, tp) == Divides(tp, heads) \/ Divides(heads, tp)

\* C8 as stated: construction succeeds exactly when the head count and the
\* key/value head count are each divisible by the worker count or divide it,
\* and then both per-worker counts are at least 1.
C8_CompatibleHeads ==
    \A a \in attn :
        /\ a.ok <=> /\ Compatible(config.num_attention_heads, tp_size)
                    /\ Compatible(config.num_key_value_heads, tp_size)
        /\ a.ok => a.num_heads >= 1 /\ a.num_kv_heads >= 1

\* C8 amended: construction succeeds exactly when the head count is divisible
\* by the worker count and the key/value head count is divisible by the
\* worker count or divides it; then both per-worker counts are at least 1.
C8_SplitHeadsCompatibleKV ==
    \A a \in attn :
        /\ a.ok <=> /\ Divides(tp_size, config.num_attention_heads)
                    /\ Compatible(config.num_key_value_heads, tp_size)
        /\ a.ok => a.num_heads >= 1 /\ a.num_kv_heads >= 1

C8_Witness ==
    \E a \in attn :
        /\ a.ok
        /\ tp_size > 1
        /\ config.num_key_value_heads < tp_size
        /\ config.num_attention_heads > tp_size

\* C9: once built, a decoder layer has the MoE block exactly when routed
\* experts are configured, its index is at least first_k_dense_replace and
\* its index is a multiple of moe_layer_freq, and the dense block otherwise;
\* this holds in every later state, so the choice never changes.
C9_LayerKind ==
    Built =>
        /\ Len(layers) = config.num_hidden_layers
        /\ \A l \in 0..(Len(layers) - 1) :
              /\ layers[l + 1].mlp.kind \in {"DeepseekMoE", "DeepseekMLP"}
              /\ layers[l + 1].mlp.kind = "DeepseekMoE" <=>
                    /\ config.n_routed_experts # {}
                    /\ l >= config.first_k_dense_replace
                    /\ \E q \in 0..l : l = q * config.moe_layer_freq

C9_Witness ==
    /\ phase = "returned"
    /\ config.moe_layer_freq > 1
    /\ \E l \in 0..(Len(layers) - 1) : layers[l + 1].mlp.kind = "DeepseekMoE"
    /\ \E l \in 0..(Len(layers) - 1) :
          /\ layers[l + 1].mlp.kind = "DeepseekMLP"
          /\ l >= config.first_k_dense_replace
          /\ config.n_routed_experts # {}

\* C10: in one forward call the layers run once each in index order, layer k
\* with kv_caches[k] and the pair layer k-1 returned; the residual is None
\* only on entry to layer 0, which takes the plain norm and keeps its raw
\* input as residual, later layers take the fused add-norm; the final norm
\* runs once, last, on the last layer's hidden state and residual.
C10_ResidualThreading ==
    /\ \A k \in DOMAIN layer_calls :
          /\ layer_calls[k].layer = k - 1
          /\ layer_calls[k].kv_cache = k - 1
          /\ IF k = 1
             THEN /\ layer_calls[k].hidden_states = Value("embed_tokens", 0)
                  /\ IsNone(layer_calls[k].residual)
                  /\ layer_calls[k].branch = "norm"
                  /\ layer_calls[k].residual_in_use = layer_calls[k].hidden_states
             ELSE /\ layer_calls[k].hidden_states = layer_calls[k - 1].out_hidden_states
                  /\ layer_calls[k].residual = layer_calls[k - 1].out_residual
                  /\ ~IsNone(layer_calls[k].residual)
                  /\ layer_calls[k].branch = "add_norm"
    /\ LET starts == SelectSeq(trace, LAMBDA e : e.by = "input_layernorm")
       IN  /\ Len(starts) = (IF phase = "returned" THEN Len(layers) ELSE i)
           /\ \A k \in DOMAIN starts :
                 starts[k] = Ev(IF k = 1 THEN "norm" ELSE "add_norm", k - 1,
                                "input_layernorm")
    /\ \A k \in DOMAIN trace :
          trace[k].by = "model.norm" =>
              /\ phase = "returned"
              /\ k = Len(trace)
              /\ trace[k].op = "add_norm"
              /\ Len(layer_calls) = Len(layers) + 1
    /\ phase = "returned" => trace[Len(trace)].by = "model.norm"

C10_Witness ==
    /\ phase = "returned"
    /\ Len(layers) >= MaxLayers
    /\ layers[1].mlp.kind = "DeepseekMLP"
    /\ layers[Len(layers)].mlp.kind = "DeepseekMoE"

(***************************************************************************)
(* Claims about the MoE block's weights and routing.                       *)
(***************************************************************************)

Slots == {<<k, e>> : k \in Kinds, e \in DOMAIN expert_w["w1"]}

\* C11: after pack_params, expert e's weight and slice e of the bank are one
\* storage, for both banks: packing puts the values the weight held into
\* slice e, and after every in-place write, through the expert's view or
\* through the bank, slice e equals expert e's weight, holds the written
\* value, and no other expert's slice has changed.
C11_BankAliasesExperts ==
    [][/\ (phase = "moe_init" /\ phase' = "packed") =>
             \A s \in Slots :
                 ReadView(heap', BankSlice(Val(bank'[s[1]]), s[2]))
                     = ReadView(heap, expert_w[s[1]][s[2]])
       /\ phase' = "packed" =>
             \A s \in Slots :
                 /\ expert_w'[s[1]][s[2]] = BankSlice(Val(bank'[s[1]]), s[2])
                 /\ ReadView(heap', expert_w'[s[1]][s[2]])
                       = ReadView(heap', BankSlice(Val(bank'[s[1]]), s[2]))
       /\ (phase = "packed" /\ phase' = "packed") =>
             \A w \in last_write' :
                 /\ ReadView(heap', expert_w'[w.kind][w.expert])[w.cell] = w.value
                 /\ ReadView(heap', BankSlice(Val(bank'[w.kind]), w.expert))[w.cell]
                       = w.value
                 /\ \A s \in Slots \ {<<w.kind, w.expert>>} :
                       /\ ReadView(heap', BankSlice(Val(bank'[s[1]]), s[2]))
                             = ReadView(heap, BankSlice(Val(bank[s[1]]), s[2]))
                       /\ ReadView(heap', expert_w'[s[1]][s[2]])
                             = ReadView(heap, expert_w[s[1]][s[2]])]_vars

C11_Witness ==
    /\ phase = "packed"
    /\ Len(expert_w["w1"]) = MaxExperts
    /\ \E w \in last_write :
          /\ w.via = "expert"
          /\ w.expert = MaxExperts
          /\ w.kind = "w1"
          /\ w.value # 0
          /\ ReadView(heap, BankSlice(Val(bank["w1"]), w.expert))[w.cell] = w.value
          /\ \A e \in 1..(MaxExperts - 1) : \A c \in 1..Val(bank["w1"]).numel :
                ReadView(heap, BankSlice(Val(bank["w1"]), e))[c] = 0

\* the softmax mass of a set of experts is Mass(row, S) / Mass(row, DOMAIN row)
RECURSIVE Mass(_, _)
Mass(row, S) ==
    IF S = {} THEN 0
    ELSE LET e == CHOOSE x \in S : TRUE IN Exp(row[e]) + Mass(row, S \ {e})

\* C12: for every token, the decision passed to the fused-expert kernel
\* names top_k distinct experts, none of them with a smaller softmax weight
\* than an expert left out; with norm_topk_prob each passed weight is the
\* expert's softmax weight divided by the sum over the selected ones, so the
\* passed weights sum to 1; without it each passed weight is the softmax
\* weight itself, so they sum to the softmax mass of the selected experts.
C12_TopKRouting ==
    \A r \in routing : \A t \in DOMAIN router_logits :
        LET row == router_logits[t]
            sel == r.selected_experts[t]
            ws == r.routing_weights[t]
            S == {sel[a] : a \in DOMAIN sel}
            total == FracSum(ws)
        IN  /\ DOMAIN r.selected_experts = DOMAIN router_logits
            /\ DOMAIN r.routing_weights = DOMAIN router_logits
            /\ Len(sel) = config.num_experts_per_tok
            /\ Len(ws) = config.num_experts_per_tok
            /\ Cardinality(S) = config.num_experts_per_tok
            /\ S \subseteq DOMAIN row
            /\ \A s \in S : \A o \in DOMAIN row \ S : row[s] >= row[o]
            /\ config.norm_topk_prob =>
                  /\ \A a \in DOMAIN sel :
                        ws[a].num * Mass(row, S) = ws[a].den * Exp(row[sel[a]])
                  /\ total.num = total.den
            /\ ~config.norm_topk_prob =>
                  /\ \A a \in DOMAIN sel :
                        ws[a].num * Mass(row, DOMAIN row) = ws[a].den * Exp(row[sel[a]])
                  /\ total.num * Mass(row, DOMAIN row) = total.den * Mass(row, S)

C12_Witness ==
    /\ phase = "routed"
    /\ config.norm_topk_prob
    /\ Len(router_logits) = MaxTokens
    /\ config.num_experts_per_tok < Val(config.n_routed_experts)
    /\ \E r \in routing :
          /\ \A t \in DOMAIN router_logits :
                LET total == FracSum(r.routing_weights[t])
                IN  /\ total.num = total.den
                    /\ Mass(router_logits[t], {r.selected_experts[t][1]})
                          < Mass(router_logits[t], DOMAIN router_logits[t])
          /\ \E t \in DOMAIN router_logits :
                router_logits[t][r.selected_experts[t][1]] > router_logits[t][1]

=============================================================================
